---------------------------- MODULE Spec2Model ----------------------------
(***************************************************************************)
(* State-machine model of the TaskManager contract                         *)
(* (src/contract/src/lib.rs).                                              *)
(*                                                                         *)
(* Every public method of the contract is one action.  A method that       *)
(* panics (assert!, expect, unwrap) leaves the contract state as it was:   *)
(* the host discards the writes of a failed call.  The variable `last`     *)
(* records the most recent call, its arguments and its outcome, `calls`    *)
(* counts the calls that committed, and `returned` (ids add_task           *)
(* returned), `minted` (review ids ever stored or queued), `adjudicated`   *)
(* (review ids review_task committed on), `accepted` (those it committed   *)
(* on with is_accepted = TRUE) and `transfers` (payout transfers per       *)
(* review id) are history variables: no method reads them.                 *)
(*                                                                         *)
(* Reading of the source where it is not well typed:                       *)
(*  - Option<T> is modelled as a sequence of length 0 (None) or 1 (Some).  *)
(*    ReviewTask.reviewed_by / reviewed_at are declared String / u64 but   *)
(*    created with None and tested with is_none(); they are Options here.  *)
(*  - `descriptions` in add_task and `user_account` in review_task are     *)
(*    free identifiers of the method bodies; they are inputs of the        *)
(*    actions.                                                             *)
(*  - Task.descriptions is iterated with all(|d| d.is_some()); a value of  *)
(*    that field is a sequence of Option elements.  The string that        *)
(*    submit_task joins is the sequence of its segments, each present.     *)
(***************************************************************************)
EXTENDS Integers, Sequences, FiniteSets, TLC

VARIABLES tasks, review_tasks, task_queue, review_queue,
          task_counter, review_counter, payout_account,
          calls, last, returned, minted, adjudicated, accepted, transfers

state == <<tasks, review_tasks, task_queue, review_queue,
           task_counter, review_counter, payout_account>>
history == <<returned, minted, adjudicated, accepted, transfers>>
vars == <<tasks, review_tasks, task_queue, review_queue,
          task_counter, review_counter, payout_account,
          calls, last, returned, minted, adjudicated, accepted, transfers>>

\* ------------------------------------------------------------------ bounds
\* add_task is enabled while fewer than MaxTasks tasks were added.
MaxTasks == 2
\* A behaviour holds at most MaxCalls calls that commit (calls that do not panic).
MaxCalls == 7

\* ------------------------------------------------------------------ inputs
Accounts == {"alice", "bob"}
Workers == {"alice"}
Reviewers == {"bob", "carol"}
Adjudicators == {"bob"}
ImageUrls == {"img1"}
BlockTimestamps == {1}

None == <<>>
Some(x) == <<x>>

\* The four description slots a caller can pass: all present, or one absent.
DescriptionInputs ==
    { <<Some("d"), Some("d"), Some("d"), Some("d")>>,
      <<Some("d"), None, Some("d"), Some("d")>> }

\* The description slots a worker submits.
SubmittedDescriptions == { <<Some("d"), None, Some("d"), Some("d")>> }

TaskIds == 0..MaxTasks
ReviewTaskIds == 0..(2 * MaxTasks)
NoId == -1

\* 1 NEAR, the amount of the payout transfer (10^24 yoctoNEAR in the source).
payout_amount == 1

\* ------------------------------------------------------- collection helpers
\* UnorderedMap::insert: adds the key or overwrites the value stored under it.
Insert(m, k, v) == [x \in (DOMAIN m) \cup {k} |-> IF x = k THEN v ELSE m[x]]

\* UnorderedMap::len
MapLen(m) == Cardinality(DOMAIN m)

\* contains(&x)
Contains(q, x) == \E i \in 1..Len(q) : q[i] = x

\* Variant of position(..) that answers the head of the queue.
PositionHead(q, x) == 1

\* iter().position(|x| *x == v).unwrap(): the first index holding v
Position(q, x) == CHOOSE i \in 1..Len(q) : q[i] = x /\ \A j \in 1..(i - 1) : q[j] # x

\* Variant of remove(index) that forgets the removal.
RemoveKeep(q, i) == q

\* remove(index): deletes the element at the index, keeps the order of the rest
Remove(q, i) == [j \in 1..(Len(q) - 1) |-> IF j < i THEN q[j] ELSE q[j + 1]]

Range(q) == {q[i] : i \in 1..Len(q)}

\* iter().filter_map(|desc| desc.clone()): the present values, in order
RECURSIVE FilterMap(_)
FilterMap(descriptions) ==
    IF descriptions = <<>> THEN <<>>
    ELSE IF Head(descriptions) = None THEN FilterMap(Tail(descriptions))
    ELSE <<Head(descriptions)[1]>> \o FilterMap(Tail(descriptions))

\* join(";"): the segments with the separator between them
RECURSIVE Join(_, _)
Join(pieces, sep) ==
    IF pieces = <<>> THEN <<>>
    ELSE IF Len(pieces) = 1 THEN <<Some(pieces[1])>>
    ELSE <<Some(pieces[1]), Some(sep)>> \o Join(Tail(pieces), sep)

\* descriptions.iter().all(|d| d.is_some())
AllSome(descriptions) == \A i \in 1..Len(descriptions) : descriptions[i] # None

\* ------------------------------------------------------------ call records
Call(op, id, account, flag, err, ret, promise) ==
    [op |-> op, id |-> id, account |-> account, is_accepted |-> flag,
     err |-> err, ret |-> ret, promise |-> promise]

\* A panicking call: no write of the call survives.  Its record keeps the
\* method, the id it addressed, the account it named and the panic message.
Panic(op, id, account, msg) ==
    /\ last' = Call(op, id, account, FALSE, msg, NoId, None)
    /\ UNCHANGED state
    /\ UNCHANGED calls
    /\ UNCHANGED history

\* History bookkeeping shared by the successful calls.
Minted(rts, rq) == minted \cup (DOMAIN rts) \cup Range(rq)

Init ==
    /\ tasks = <<>>
    /\ review_tasks = <<>>
    /\ task_queue = <<>>
    /\ review_queue = <<>>
    /\ task_counter = 0
    /\ review_counter = 0
    /\ payout_account = "treasury"
    /\ calls = 0
    /\ last = Call("init", NoId, "", FALSE, "ok", NoId, None)
    /\ returned = {}
    /\ minted = {}
    /\ adjudicated = {}
    /\ accepted = {}
    /\ transfers = <<>>

\* ----------------------------------------------------------------- add_task
\* Variant of the counter update that forgets the increment.
next_task_counter_same == task_counter

\* self.task_counter += 1
next_task_counter == task_counter + 1

add_task(image_url, descriptions) ==
    LET task_id == task_counter
        task == [image_url |-> image_url,
                 descriptions |-> descriptions,
                 assigned_to |-> None,
                 assigned_at |-> None,
                 reviewed_by |-> None,
                 reviewed_at |-> None,
                 is_completed |-> FALSE]
    IN  /\ task_counter < MaxTasks
        /\ tasks' = Insert(tasks, task_id, task)
        /\ task_queue' = Append(task_queue, task_id)
        /\ task_counter' = next_task_counter
        /\ last' = Call("add_task", NoId, "", FALSE, "ok", task_id, None)
        /\ returned' = returned \cup {task_id}
        /\ calls' = calls + 1
        /\ UNCHANGED <<review_tasks, review_queue, review_counter, payout_account>>
        /\ UNCHANGED <<minted, adjudicated, accepted, transfers>>

\* -------------------------------------------------------------- assign_task
\* Variant of the queue test that looks the id up in the Task store instead.
InTaskQueueStore(task_id) == task_id \in DOMAIN tasks

\* self.task_queue.contains(&task_id)
InTaskQueue(task_id) == Contains(task_queue, task_id)

\* Variant of the assignment that forgets the timestamp.
AssignedUnstamped(task, user_account, now) ==
    [task EXCEPT !.assigned_to = Some(user_account)]

\* task.assigned_to = Some(user_account.clone());
\* task.assigned_at = Some(env::block_timestamp());
Assigned(task, user_account, now) ==
    [task EXCEPT !.assigned_to = Some(user_account), !.assigned_at = Some(now)]

assign_task(task_id, user_account, now) ==
    IF ~InTaskQueue(task_id)
    THEN Panic("assign_task", task_id, user_account, "Task not in queue")
    ELSE IF task_id \notin DOMAIN tasks
    THEN Panic("assign_task", task_id, user_account, "unwrap on None")
    ELSE IF tasks[task_id].assigned_to # None
    THEN Panic("assign_task", task_id, user_account, "Task already assigned")
    ELSE
      LET task == Assigned(tasks[task_id], user_account, now)
          review_task == [task_id |-> task_id,
                          reviewed_by |-> None,
                          reviewed_at |-> None,
                          is_accepted |-> FALSE]
      IN  /\ tasks' = Insert(tasks, task_id, task)
          /\ task_queue' = Remove(task_queue, Position(task_queue, task_id))
          /\ review_queue' = Append(review_queue, review_counter)
          /\ review_tasks' = Insert(review_tasks, review_counter, review_task)
          /\ review_counter' = review_counter + 1
          /\ last' = Call("assign_task", task_id, user_account, FALSE, "ok", NoId, None)
          /\ minted' = Minted(review_tasks', review_queue')
          /\ calls' = calls + 1
          /\ UNCHANGED <<task_counter, payout_account>>
          /\ UNCHANGED <<returned, adjudicated, accepted, transfers>>

\* -------------------------------------------------------------- submit_task
\* Variant of the id choice that takes review_counter, as assign_task does.
fresh_review_task_id_counter == review_counter

\* let review_task_id = self.review_tasks.len() as u64
fresh_review_task_id == MapLen(review_tasks)

\* Variant of the assignee test that accepts any caller once the task is assigned.
IsAssigneeAnyCaller(task, account) == task.assigned_to # None

\* task.assigned_to == Some(env::predecessor_account_id())
IsAssignee(task, account) == task.assigned_to = Some(account)

submit_task(task_id, descriptions, predecessor_account_id) ==
    IF task_id \notin DOMAIN tasks
    THEN Panic("submit_task", task_id, predecessor_account_id, "Invalid task ID")
    ELSE IF ~IsAssignee(tasks[task_id], predecessor_account_id)
    THEN Panic("submit_task", task_id, predecessor_account_id,
               "You are not assigned to this task")
    ELSE IF tasks[task_id].is_completed # FALSE
    THEN Panic("submit_task", task_id, predecessor_account_id,
               "Task is already completed")
    ELSE
      LET task == tasks[task_id]
          new_descriptions == Join(FilterMap(descriptions), ";")
          updated_task == [image_url |-> task.image_url,
                           descriptions |-> new_descriptions,
                           assigned_to |-> task.assigned_to,
                           assigned_at |-> task.assigned_at,
                           reviewed_by |-> task.reviewed_by,
                           reviewed_at |-> task.reviewed_at,
                           is_completed |-> TRUE]
          review_task_id == fresh_review_task_id
          review_task == [task_id |-> task_id,
                          reviewed_by |-> None,
                          reviewed_at |-> None,
                          is_accepted |-> FALSE]
      IN  /\ tasks' = Insert(tasks, task_id, updated_task)
          /\ review_tasks' = Insert(review_tasks, review_task_id, review_task)
          /\ review_queue' = Append(review_queue, review_task_id)
          /\ last' = Call("submit_task", task_id, predecessor_account_id, FALSE,
                          "ok", NoId, None)
          /\ minted' = Minted(review_tasks', review_queue')
          /\ calls' = calls + 1
          /\ UNCHANGED <<task_queue, task_counter, review_counter, payout_account>>
          /\ UNCHANGED <<returned, adjudicated, accepted, transfers>>

\* ------------------------------------------------------- assign_review_task
assign_review_task(review_task_id, user_account, now) ==
    IF ~Contains(review_queue, review_task_id)
    THEN Panic("assign_review_task", review_task_id, user_account,
               "Review task not in queue")
    ELSE IF review_task_id \notin DOMAIN review_tasks
    THEN Panic("assign_review_task", review_task_id, user_account,
               "unwrap on None")
    ELSE
      LET review_task == [review_tasks[review_task_id]
                            EXCEPT !.reviewed_by = Some(user_account),
                                   !.reviewed_at = Some(now)]
      IN  /\ review_tasks' = Insert(review_tasks, review_task_id, review_task)
          /\ review_queue' = Remove(review_queue, Position(review_queue, review_task_id))
          /\ last' = Call("assign_review_task", review_task_id, user_account, FALSE,
                          "ok", NoId, None)
          /\ minted' = Minted(review_tasks', review_queue')
          /\ calls' = calls + 1
          /\ UNCHANGED <<tasks, task_queue, task_counter, review_counter, payout_account>>
          /\ UNCHANGED <<returned, adjudicated, accepted, transfers>>

\* -------------------------------------------------------------- review_task
\* Promise::new(self.payout_account.clone()).transfer(payout_amount.0)
Transfer(receiver_id, amount) == [receiver_id |-> receiver_id, amount |-> amount]

review_task(review_task_id, is_accepted, user_account, now) ==
    IF ~Contains(review_queue, review_task_id)
    THEN Panic("review_task", review_task_id, user_account,
               "Review task not in queue")
    ELSE IF review_task_id \notin DOMAIN review_tasks
    THEN Panic("review_task", review_task_id, user_account,
               "unwrap on None")
    ELSE IF review_tasks[review_task_id].reviewed_by # None
    THEN Panic("review_task", review_task_id, user_account,
               "Review task already assigned")
    ELSE
      LET review_task == [review_tasks[review_task_id]
                            EXCEPT !.reviewed_by = Some(user_account),
                                   !.reviewed_at = Some(now)]
          removed == Remove(review_queue, Position(review_queue, review_task_id))
      IN  IF review_task.task_id \notin DOMAIN tasks
          THEN Panic("review_task", review_task_id, user_account,
                     "unwrap on None")
          ELSE
            /\ IF AllSome(tasks[review_task.task_id].descriptions)
               THEN /\ review_tasks' = Insert(review_tasks, review_task_id,
                                              [review_task EXCEPT !.is_accepted = TRUE])
                    /\ review_queue' = removed
                    /\ last' = Call("review_task", review_task_id, user_account,
                                    is_accepted, "ok", NoId,
                                    Some(Transfer(payout_account, payout_amount)))
                    /\ transfers' = Insert(transfers, review_task_id,
                                           IF review_task_id \in DOMAIN transfers
                                           THEN transfers[review_task_id] + 1 ELSE 1)
               ELSE /\ review_tasks' = Insert(review_tasks, review_task_id, review_task)
                    /\ review_queue' = Append(removed, review_task_id)
                    /\ last' = Call("review_task", review_task_id, user_account,
                                    is_accepted, "ok", NoId, None)
                    /\ transfers' = transfers
            /\ adjudicated' = adjudicated \cup {review_task_id}
            /\ accepted' = IF is_accepted THEN accepted \cup {review_task_id} ELSE accepted
            /\ minted' = Minted(review_tasks', review_queue')
            /\ calls' = calls + 1
            /\ UNCHANGED <<tasks, task_queue, task_counter, review_counter, payout_account>>
            /\ UNCHANGED returned

\* --------------------------------------------------------------------- Next
AddTask == \E image_url \in ImageUrls, descriptions \in DescriptionInputs :
    calls < MaxCalls /\ add_task(image_url, descriptions)

AssignTask == \E task_id \in TaskIds, user_account \in Workers, now \in BlockTimestamps :
    calls < MaxCalls /\ assign_task(task_id, user_account, now)

SubmitTask == \E task_id \in TaskIds, descriptions \in SubmittedDescriptions,
                 predecessor_account_id \in Accounts :
    calls < MaxCalls /\ submit_task(task_id, descriptions, predecessor_account_id)

AssignReviewTask == \E review_task_id \in ReviewTaskIds, user_account \in Reviewers,
                       now \in BlockTimestamps :
    calls < MaxCalls /\ assign_review_task(review_task_id, user_account, now)

ReviewTask == \E review_task_id \in ReviewTaskIds, is_accepted \in BOOLEAN,
                 user_account \in Adjudicators, now \in BlockTimestamps :
    calls < MaxCalls /\ review_task(review_task_id, is_accepted, user_account, now)

Next == AddTask \/ AssignTask \/ SubmitTask \/ AssignReviewTask \/ ReviewTask

Spec == Init /\ [][Next]_vars

\* ------------------------------------------------------------------ claims
Count(q, x) == Cardinality({i \in 1..Len(q) : q[i] = x})
NoDuplicates(q) == \A i, j \in 1..Len(q) : q[i] = q[j] => i = j
Committed(op) == last.op = op /\ last.err = "ok"

\* C1: in every reachable state neither the task-queue nor the review-queue
\* holds the same identifier twice.
C1_QueuesHaveNoDuplicates ==
    NoDuplicates(task_queue) /\ NoDuplicates(review_queue)

\* C2: every submit_task call that commits makes the review-queue one longer
\* and stores a ReviewTask for the submitted task under an identifier that no
\* earlier state had as a ReviewTask key or as a review-queue entry; that
\* identifier is the entry appended to the review-queue.
C2_SubmitMintsFreshReview ==
    [][ (last'.op = "submit_task" /\ last'.err = "ok") =>
          /\ Len(review_queue') = Len(review_queue) + 1
          /\ \E rid \in (DOMAIN review_tasks') \ minted :
               /\ review_queue' = Append(review_queue, rid)
               /\ review_tasks'[rid].task_id = last'.id ]_vars

C2_Witness ==
    /\ Committed("submit_task")
    /\ Len(review_queue) >= 2
    /\ MapLen(review_tasks) >= 2

\* C3: after a review_task call with is_accepted = FALSE that commits, the
\* task of the review is in the task-queue exactly once and the review id is
\* not in the review-queue.
C3_RejectRequeuesTask ==
    (Committed("review_task") /\ ~last.is_accepted) =>
        /\ Count(task_queue, review_tasks[last.id].task_id) = 1
        /\ ~Contains(review_queue, last.id)

\* C4: a ReviewTask is adjudicated at most once: once a review_task call
\* with is_accepted = TRUE has committed on a review id, every later
\* review_task call on that id panics, and no review id ever has more than
\* one payout transfer.
C4_AdjudicatedAtMostOnce ==
    [][ \A r \in ReviewTaskIds :
          /\ (r \in DOMAIN transfers' => transfers'[r] <= 1)
          /\ (r \in accepted /\ last'.op = "review_task" /\ last'.id = r)
                => last'.err # "ok" ]_vars

\* C5: while a ReviewTask has the reviewer that assign_review_task gave it and
\* no adjudication of it has committed, a review_task call on it by that
\* reviewer commits.
C5_AssignedReviewerCanAdjudicate ==
    [][ \A r \in DOMAIN review_tasks, u \in Adjudicators :
          ( /\ review_tasks[r].reviewed_by = Some(u)
            /\ r \notin adjudicated
            /\ last'.op = "review_task" /\ last'.id = r /\ last'.account = u )
          => last'.err = "ok" ]_vars

\* C6: a review_task call on a ReviewTask that has no reviewer panics, leaves
\* the contract state as it was and triggers no payout transfer.
C6_UnassignedReviewCannotBeAdjudicated ==
    [][ \A r \in DOMAIN review_tasks :
          (review_tasks[r].reviewed_by = None /\ last'.op = "review_task" /\ last'.id = r)
          => /\ last'.err # "ok"
             /\ last'.promise = None
             /\ UNCHANGED state
             /\ UNCHANGED transfers ]_vars

\* C7: a review_task call that commits ends with is_accepted of the ReviewTask
\* equal to its is_accepted argument, and it triggers one payout transfer to
\* the payout account when the argument is TRUE and none when it is FALSE.
C7_OutcomeFollowsArgument ==
    Committed("review_task") =>
        /\ review_tasks[last.id].is_accepted = last.is_accepted
        /\ last.promise = IF last.is_accepted
                          THEN Some(Transfer(payout_account, payout_amount))
                          ELSE None

\* C8: an assign_task call whose task id is not in the task-queue panics with
\* "Task not in queue" and leaves the Task records, the task-queue, the
\* ReviewTask records, the review-queue and both counters unchanged.
C8_AssignUnqueuedFails ==
    [][ (last'.op = "assign_task" /\ ~Contains(task_queue, last'.id)) =>
          /\ last'.err = "Task not in queue"
          /\ UNCHANGED state ]_vars

C8_Witness ==
    /\ last.op = "assign_task"
    /\ last.err = "Task not in queue"
    /\ task_queue # <<>>
    /\ ~Contains(task_queue, last.id)

\* C9 as stated: right after an assign_task call that committed, its task id
\* is not in the task-queue and a second assign_task call on that id panics
\* with "Task already assigned".
C9_SecondAssignAlreadyAssigned ==
    [][ (Committed("assign_task") /\ last'.op = "assign_task" /\ last'.id = last.id) =>
          /\ ~Contains(task_queue, last.id)
          /\ last'.err = "Task already assigned" ]_vars

\* C9 as amended: right after an assign_task call that committed, its task id
\* is not in the task-queue and a second assign_task call on that id panics
\* with "Task not in queue" and changes nothing.
C9_SecondAssignNotQueued ==
    [][ (Committed("assign_task") /\ last'.op = "assign_task" /\ last'.id = last.id) =>
          /\ ~Contains(task_queue, last.id)
          /\ last'.err = "Task not in queue"
          /\ UNCHANGED state ]_vars

C9_Witness ==
    /\ last.op = "assign_task"
    /\ last.err = "Task not in queue"
    /\ last.id \in DOMAIN tasks
    /\ tasks[last.id].assigned_to # None
    /\ ~tasks[last.id].is_completed
    /\ review_queue # <<>>
    /\ review_tasks[review_queue[Len(review_queue)]].task_id = last.id
    /\ review_tasks[review_queue[Len(review_queue)]].reviewed_by = None

\* C10: every add_task call returns an identifier greater than every
\* identifier add_task returned before, and right after the call the Task
\* stored under it has assigned_to = None and is_completed = FALSE and the
\* identifier is the last entry of the task-queue.
C10_AddTaskFreshOpenTail ==
    [][ last'.op = "add_task" =>
          /\ \A i \in returned : last'.ret > i
          /\ last'.ret \in DOMAIN tasks'
          /\ tasks'[last'.ret].assigned_to = None
          /\ tasks'[last'.ret].is_completed = FALSE
          /\ task_queue' # <<>>
          /\ task_queue'[Len(task_queue')] = last'.ret ]_vars

C10_Witness ==
    /\ Committed("add_task")
    /\ last.ret > 0
    /\ returned = {0, last.ret}

\* C11: a submit_task call on a Task by an account other than the Task's
\* assigned_to (also when the Task is unassigned) panics with "You are not
\* assigned to this task" and leaves the Task records, the ReviewTask records
\* and the review-queue unchanged.
C11_SubmitByOtherFails ==
    [][ ( /\ last'.op = "submit_task"
          /\ last'.id \in DOMAIN tasks
          /\ tasks[last'.id].assigned_to # Some(last'.account) ) =>
          /\ last'.err = "You are not assigned to this task"
          /\ UNCHANGED <<tasks, review_tasks, review_queue>> ]_vars

C11_Witness ==
    /\ last.op = "submit_task"
    /\ last.err = "You are not assigned to this task"
    /\ last.id \in DOMAIN tasks
    /\ tasks[last.id].assigned_to = Some("alice")
    /\ last.account = "bob"

\* C12: an assign_review_task call panics with "Review task not in queue"
\* when its id is not in the review-queue and with "Review task already
\* assigned" when the queued ReviewTask already has a reviewer; so no
\* assign_review_task call changes a reviewed_by that is set.
C12_AssignReviewGuards ==
    [][ last'.op = "assign_review_task" =>
          /\ ~Contains(review_queue, last'.id) => last'.err = "Review task not in queue"
          /\ \A r \in DOMAIN review_tasks :
               review_tasks[r].reviewed_by # None =>
                 /\ (last'.id = r /\ Contains(review_queue, r))
                       => last'.err = "Review task already assigned"
                 /\ review_tasks'[r].reviewed_by = review_tasks[r].reviewed_by ]_vars

\* A review whose adjudications all had is_accepted = FALSE.
Rejected(r) == r \in adjudicated \ accepted

\* C13: once a review of task t is rejected, an assign_task call on t right
\* after the rejection commits, and a submit_task call on t that commits
\* stores a ReviewTask for t under a new id, different from the rejected
\* review's id, and leaves that new id, and not the rejected one, in the
\* review-queue.
C13_RejectedTaskRecycles ==
    [][ \A r \in DOMAIN review_tasks :
          Rejected(r) =>
            /\ ( /\ Committed("review_task") /\ last.id = r /\ ~last.is_accepted
                 /\ last'.op = "assign_task"
                 /\ last'.id = review_tasks[r].task_id ) => last'.err = "ok"
            /\ ( /\ last'.op = "submit_task" /\ last'.err = "ok"
                 /\ last'.id = review_tasks[r].task_id ) =>
                 \E n \in (DOMAIN review_tasks') \ (DOMAIN review_tasks) :
                    /\ n # r
                    /\ review_tasks'[n].task_id = review_tasks[r].task_id
                    /\ Contains(review_queue', n)
                    /\ ~Contains(review_queue', r) ]_vars

\* C14: every id in the review-queue is the key of a ReviewTask that has no
\* reviewer and that no review_task call has committed on.
C14_ReviewQueueHoldsPendingReviews ==
    \A i \in 1..Len(review_queue) :
        /\ review_queue[i] \in DOMAIN review_tasks
        /\ review_tasks[review_queue[i]].reviewed_by = None
        /\ review_queue[i] \notin adjudicated

\* C15: every id in the task-queue is the key of a Task that is open: its
\* assigned_to is None and its is_completed is FALSE.
C15_TaskQueueHoldsOpenTasks ==
    \A i \in 1..Len(task_queue) :
        /\ task_queue[i] \in DOMAIN tasks
        /\ tasks[task_queue[i]].assigned_to = None
        /\ tasks[task_queue[i]].is_completed = FALSE

C15_Witness ==
    /\ Committed("assign_task")
    /\ Len(task_queue) = 1
    /\ task_queue[1] # last.id
    /\ tasks[last.id].assigned_to # None

\* C16: after a review_task call commits, the Task its ReviewTask refers to
\* has is_completed = TRUE (is_completed is never reset, so it had it when
\* the call ran).
C16_AdjudicatedTaskWasSubmitted ==
    Committed("review_task") =>
        /\ review_tasks[last.id].task_id \in DOMAIN tasks
        /\ tasks[review_tasks[last.id].task_id].is_completed

\* C17: for every Task record, assigned_at is set exactly when assigned_to is
\* set.
C17_AssignedAtIffAssignedTo ==
    \A id \in DOMAIN tasks :
        (tasks[id].assigned_at # None) <=> (tasks[id].assigned_to # None)

C17_Witness ==
    /\ Committed("submit_task")
    /\ tasks[last.id].assigned_to # None
    /\ tasks[last.id].assigned_at # None
    /\ \E id \in DOMAIN tasks : tasks[id].assigned_to = None

\* C18: an assign_task call that commits changes only assigned_to and
\* assigned_at of its Task and removes the id from the task-queue; it leaves
\* the ReviewTask records, the review-queue and the review counter unchanged.
C18_AssignTaskFrame ==
    [][ (last'.op = "assign_task" /\ last'.err = "ok") =>
          /\ tasks' = [tasks EXCEPT ![last'.id] =
                         [@ EXCEPT !.assigned_to = tasks'[last'.id].assigned_to,
                                   !.assigned_at = tasks'[last'.id].assigned_at]]
          /\ ~Contains(task_queue', last'.id)
          /\ UNCHANGED <<review_tasks, review_queue, review_counter>> ]_vars

\* C19: a ReviewTask record is never replaced: under every review id that has
\* a record, the record stays, its task_id never changes, a reviewed_by that
\* is set stays set and an is_accepted that is TRUE stays TRUE.
C19_ReviewRecordsNeverOverwritten ==
    [][ \A r \in DOMAIN review_tasks :
          /\ r \in DOMAIN review_tasks'
          /\ review_tasks'[r].task_id = review_tasks[r].task_id
          /\ review_tasks[r].reviewed_by # None => review_tasks'[r].reviewed_by # None
          /\ review_tasks[r].is_accepted => review_tasks'[r].is_accepted ]_vars

\* C20: a task id is in the task-queue exactly when its Task has
\* assigned_to = None, and the length of the task-queue plus the number of
\* assigned Tasks is the number of tasks add_task has added.
C20_NoOpenTaskLost ==
    /\ \A id \in DOMAIN tasks :
          (tasks[id].assigned_to = None) <=> Contains(task_queue, id)
    /\ Len(task_queue) + Cardinality({id \in DOMAIN tasks : tasks[id].assigned_to # None})
          = Cardinality(returned)

C20_Witness ==
    /\ Cardinality(returned) = 2
    /\ Len(task_queue) = 1
    /\ \E id \in DOMAIN tasks : tasks[id].assigned_to # None /\ ~Contains(task_queue, id)

=============================================================================
